---- MODULE Spec2Model ----
(***************************************************************************)
(* CfdOF/PostProcess/CfdReportingFunctions.py: the reporting-function      *)
(* document object, its view provider and the command that creates them,   *)
(* as a state machine over the host document.                              *)
(*                                                                         *)
(* The document holds analyses (containers, implemented elsewhere) and     *)
(* reporting-function objects.  Every handler of the file is an operator   *)
(* from a world record (the document and GUI state it can touch) to the    *)
(* world it leaves behind; an action applies one handler to the current    *)
(* state.  The calls a handler makes on the host (console, error box,      *)
(* task panel, transactions) are recorded, in order, in last.calls.        *)
(***************************************************************************)
EXTENDS Integers, Sequences, FiniteSets, TLC

\* ------------------------------------------------------------ bounds
MaxObjs == 2
MaxAnalyses == 1
MaxChanges == 2

ObjIds == 1..MaxObjs
AnalysisIds == 1..MaxAnalyses

\* Python's None where an object or an analysis is expected
NoObject == 0
NoAnalysis == 0

VARIABLES
  GuiUp,            \* FreeCAD.GuiUp
  analyses,         \* analysis containers in the document
  active,           \* CfdTools.getActiveAnalysis(), NoAnalysis for None
  NeedsCaseRewrite, \* per analysis
  loading,          \* per analysis: analysis_obj.Proxy.loading
  objs,             \* reporting-function objects in the document
  proxy,            \* obj.Proxy: [Type, Object]
  vproxy,           \* obj.ViewObject.Proxy: [present, taskd, Object]
  props,            \* per object: property name -> value, for the properties it has
  visible,          \* per object: ViewObject visibility
  group,            \* per analysis: its member objects
  activeObject,     \* FreeCAD.ActiveDocument.ActiveObject: [kind, id]
  inEdit,           \* Gui document's getInEdit(), NoObject for None
  dialogs,          \* objects a task dialog is open for
  nChanges,         \* property edits made so far
  last              \* the operation that ran last: [op, obj, ret, retObj, calls]

vars == <<GuiUp, analyses, active, NeedsCaseRewrite, loading, objs, proxy, vproxy,
          props, visible, group, activeObject, inEdit, dialogs, nChanges, last>>

\* ------------------------------------------------------------ constants of the file
OBJECT_NAMES == <<"Force", "ForceCoefficients", "Probes">>

TransactionName == "Create CfdReportingFunctions object"
ParentAnalysisMsg == "Reporting function must have a parent analysis object"
DialogActiveMsg == "Task dialog already active\n"

\* The properties initProperties declares, in order: <<name, init_val, type>>
DeclaredProperties ==
  << <<"ReportingFunctionType", OBJECT_NAMES, "App::PropertyEnumeration">>,
     <<"Patch", "None", "App::PropertyLink">>,
     <<"ReferenceDensity", "1 kg/m^3", "App::PropertyQuantity">>,
     <<"ReferencePressure", "0 Pa", "App::PropertyPressure">>,
     <<"CentreOfRotation", "Vector(0, 0, 0)", "App::PropertyPosition">>,
     <<"WriteFields", "False", "App::PropertyBool">>,
     <<"Lift", "Vector(1, 0, 0)", "App::PropertyVector">>,
     <<"Drag", "Vector(0, 1, 0)", "App::PropertyVector">>,
     <<"Pitch", "Vector(0, 0, 1)", "App::PropertyVector">>,
     <<"MagnitudeUInf", "1 m/s", "App::PropertyQuantity">>,
     <<"LengthRef", "1 m", "App::PropertyQuantity">>,
     <<"AreaRef", "1 m^2", "App::PropertyQuantity">>,
     <<"NBins", "0", "App::PropertyInteger">>,
     <<"Direction", "Vector(1, 0, 0)", "App::PropertyVector">>,
     <<"Cumulative", "True", "App::PropertyBool">>,
     <<"SampleFieldName", "p", "App::PropertyString">>,
     <<"ProbePosition", "Vector(0, 0, 0)", "App::PropertyPosition">> >>

NoProps == [p \in {} |-> ""]

\* ------------------------------------------------------------ records
NoProxy == [Type |-> "None", Object |-> NoObject]
NoViewProxy == [present |-> FALSE, taskd |-> "None", Object |-> NoObject]

Call(f, o, msg) == [f |-> f, obj |-> o, msg |-> msg]

World ==
  [objs |-> objs, proxy |-> proxy, vproxy |-> vproxy, props |-> props,
   visible |-> visible, group |-> group, activeObject |-> activeObject,
   inEdit |-> inEdit, dialogs |-> dialogs, NeedsCaseRewrite |-> NeedsCaseRewrite,
   ret |-> "None", retObj |-> NoObject, calls |-> <<>>]

\* the state a handler leaves behind becomes the next state
Commit(op, o, w) ==
  /\ objs' = w.objs
  /\ proxy' = w.proxy
  /\ vproxy' = w.vproxy
  /\ props' = w.props
  /\ visible' = w.visible
  /\ group' = w.group
  /\ activeObject' = w.activeObject
  /\ inEdit' = w.inEdit
  /\ dialogs' = w.dialogs
  /\ NeedsCaseRewrite' = w.NeedsCaseRewrite
  /\ last' = [op |-> op, obj |-> o, ret |-> w.ret, retObj |-> w.retObj, calls |-> w.calls]

TypeOK ==
  /\ GuiUp \in BOOLEAN
  /\ analyses \subseteq AnalysisIds
  /\ active \in analyses \cup {NoAnalysis}
  /\ objs \subseteq ObjIds
  /\ inEdit \in objs \cup {NoObject}
  /\ dialogs \subseteq objs
  /\ nChanges \in 0..MaxChanges

Init ==
  /\ GuiUp \in BOOLEAN
  /\ analyses = {}
  /\ active = NoAnalysis
  /\ NeedsCaseRewrite = [a \in AnalysisIds |-> FALSE]
  /\ loading = [a \in AnalysisIds |-> FALSE]
  /\ objs = {}
  /\ proxy = [o \in ObjIds |-> NoProxy]
  /\ vproxy = [o \in ObjIds |-> NoViewProxy]
  /\ props = [o \in ObjIds |-> NoProps]
  /\ visible = [o \in ObjIds |-> FALSE]
  /\ group = [a \in AnalysisIds |-> {}]
  /\ activeObject = [kind |-> "None", id |-> 0]
  /\ inEdit = NoObject
  /\ dialogs = {}
  /\ nChanges = 0
  /\ last = [op |-> "init", obj |-> NoObject, ret |-> "None", retObj |-> NoObject,
             calls |-> <<>>]

\* ------------------------------------------------------------ CfdTools helpers
\* CfdTools.getActiveAnalysis()
getActiveAnalysis == active

\* CfdTools.getParentAnalysisObject(obj): the analysis whose group holds obj
getParentAnalysisObject(grp, o) ==
  IF \E a \in AnalysisIds : o \in grp[a]
  THEN CHOOSE a \in AnalysisIds : o \in grp[a]
  ELSE NoAnalysis

\* the value a property takes when it is created with init_val
InitialValue(init_val, type) ==
  IF type = "App::PropertyEnumeration" THEN init_val[1] ELSE init_val

\* CfdTools.addObjectProperty(obj, prop, init_val, type, ...): adds the property
\* with its initial value when the object does not have it, and keeps a
\* property the object already has
addObjectProperty(pr, prop, init_val, type) ==
  IF prop \in DOMAIN pr
  THEN pr
  ELSE [q \in DOMAIN pr \cup {prop} |->
          IF q = prop THEN InitialValue(init_val, type) ELSE pr[q]]

\* ------------------------------------------------------------ _CfdReportingFunctions
RECURSIVE addDeclared(_, _, _)
addDeclared(pr, decls, i) ==
  IF i > Len(decls) THEN pr
  ELSE addDeclared(addObjectProperty(pr, decls[i][1], decls[i][2], decls[i][3]),
                   decls, i + 1)

\* a declaration left out: the last addObjectProperty call is missing
initProperties_dropLast(pr) ==
  addDeclared(pr, SubSeq(DeclaredProperties, 1, Len(DeclaredProperties) - 1), 1)

initProperties(pr) == addDeclared(pr, DeclaredProperties, 1)

PropNames == {DeclaredProperties[i][1] : i \in 1..Len(DeclaredProperties)}

Defaults ==
  [p \in PropNames |->
     LET i == CHOOSE j \in 1..Len(DeclaredProperties) : DeclaredProperties[j][1] = p
     IN InitialValue(DeclaredProperties[i][2], DeclaredProperties[i][3])]

\* _CfdReportingFunctions.__init__(obj)
CfdReportingFunctions_init(w, o) ==
  [w EXCEPT !.proxy[o] = [Type |-> "ReportingFunction", Object |-> o],
            !.props[o] = initProperties(w.props[o])]

\* onDocumentRestored(obj)
onDocumentRestored(w, o) == [w EXCEPT !.props[o] = initProperties(w.props[o])]

\* execute marks the case of the parent analysis for rewriting
execute_touch(w, o) ==
  LET a == getParentAnalysisObject(w.group, o)
  IN IF a = NoAnalysis THEN w ELSE [w EXCEPT !.NeedsCaseRewrite[a] = TRUE]

\* execute(obj): pass
execute(w, o) == w

\* __getstate__(): return None
Proxy_getstate(w, o) == [w EXCEPT !.ret = "None"]

\* __setstate__ takes the proxy's Type from the state
Proxy_setstate_restoreType(w, o, state) ==
  [w EXCEPT !.proxy[o].Type = state, !.ret = "None"]

\* __setstate__(state): return None
Proxy_setstate(w, o, state) == [w EXCEPT !.ret = "None"]

\* ------------------------------------------------------------ _ViewProviderCfdReportingFunctions
\* __init__(vobj), with the attach(vobj) the host makes when the proxy is set
ViewProvider_init(w, o) ==
  [w EXCEPT !.vproxy[o] = [present |-> TRUE, taskd |-> "None", Object |-> o]]

\* updateData(obj, prop)
updateData(w, o) ==
  LET analysis_obj == getParentAnalysisObject(w.group, o)
  IN IF analysis_obj # NoAnalysis /\ ~loading[analysis_obj]
     THEN [w EXCEPT !.NeedsCaseRewrite[analysis_obj] = TRUE]
     ELSE w

\* __getstate__(): return None
ViewProvider_getstate(w, o) == [w EXCEPT !.ret = "None"]

\* __setstate__(state): return None
ViewProvider_setstate(w, o, state) == [w EXCEPT !.ret = "None"]

\* setEdit without the parent check
setEdit_noCheck(w, o) ==
  [w EXCEPT !.visible[o] = TRUE,
            !.dialogs = @ \cup {o},
            !.calls = @ \o << Call("show", o, ""), Call("showDialog", o, "") >>,
            !.ret = "True"]

\* setEdit(vobj, mode)
setEdit(w, o) ==
  LET analysis_object == getParentAnalysisObject(w.group, w.vproxy[o].Object)
  IN IF analysis_object = NoAnalysis
     THEN [w EXCEPT !.calls = Append(@, Call("cfdErrorBox", NoObject, ParentAnalysisMsg)),
                    !.ret = "False"]
     ELSE [w EXCEPT !.visible[w.vproxy[o].Object] = TRUE,
                    !.dialogs = @ \cup {o},
                    !.calls = @ \o << Call("show", w.vproxy[o].Object, ""),
                                      Call("showDialog", o, "") >>,
                    !.ret = "True"]

\* unsetEdit(vobj, mode): FreeCADGui.Control.closeDialog()
unsetEdit(w, o) ==
  [w EXCEPT !.dialogs = {}, !.calls = Append(@, Call("closeDialog", NoObject, "")),
            !.ret = "None"]

\* ------------------------------------------------------------ host (Gui document)
\* Gui document resetEdit(): the provider in edit gets unsetEdit
GuiDocument_resetEdit(w) ==
  IF w.inEdit = NoObject THEN w
  ELSE [unsetEdit(w, w.inEdit) EXCEPT !.inEdit = NoObject]

\* Gui document setEdit(name): leaves the current edit, then asks the provider;
\* the object is in edit when its setEdit returned True
GuiDocument_setEdit(w, o) ==
  LET w1 == GuiDocument_resetEdit([w EXCEPT !.calls = Append(@, Call("setEdit", o, ""))])
      w2 == setEdit(w1, o)
  IN [w2 EXCEPT !.inEdit = IF w2.ret = "True" THEN o ELSE NoObject]

\* doubleClicked always asks for edit
doubleClicked_noGuard(w, o) == [GuiDocument_setEdit(w, o) EXCEPT !.ret = "True"]

\* doubleClicked(vobj)
doubleClicked(w, o) ==
  IF w.inEdit = NoObject
  THEN [GuiDocument_setEdit(w, o) EXCEPT !.ret = "True"]
  ELSE [w EXCEPT !.calls = @ \o << Call("PrintError", NoObject, DialogActiveMsg),
                                   Call("showTaskView", NoObject, "") >>,
                 !.ret = "True"]

\* ------------------------------------------------------------ creation
NewObject(w) == CHOOSE o \in ObjIds \ w.objs : \A q \in ObjIds \ w.objs : o <= q

\* ActiveDocument.addObject("Part::FeaturePython", name)
addObject(w, o) ==
  [w EXCEPT !.objs = @ \cup {o},
            !.visible[o] = TRUE,
            !.activeObject = [kind |-> "object", id |-> o],
            !.calls = Append(@, Call("addObject", o, ""))]

\* the view provider is created whether or not the GUI is up
makeCfdReportingFunctions_alwaysView(w) ==
  LET o == NewObject(w)
      w2 == ViewProvider_init(CfdReportingFunctions_init(addObject(w, o), o), o)
  IN [w2 EXCEPT !.ret = "obj", !.retObj = o]

\* makeCfdReportingFunctions(name)
makeCfdReportingFunctions(w) ==
  LET o == NewObject(w)
      w1 == CfdReportingFunctions_init(addObject(w, o), o)
      w2 == IF GuiUp THEN ViewProvider_init(w1, o) ELSE w1
  IN [w2 EXCEPT !.ret = "obj", !.retObj = o]

\* analysis.addObject(obj): obj joins the analysis' group
Analysis_addObject(w, a, o) ==
  [w EXCEPT !.group[a] = @ \cup {o},
            !.calls = Append(@, Call("analysis.addObject", o, ""))]

\* ------------------------------------------------------------ _CommandCfdReportingFunctions
IsActive == getActiveAnalysis # NoAnalysis

\* the object is created before the transaction is opened
Activated_lateTransaction(w) ==
  LET w2 == makeCfdReportingFunctions(w)
      w3 == Analysis_addObject(w2, getActiveAnalysis, w2.retObj)
      w4 == [w3 EXCEPT !.calls = Append(@, Call("openTransaction", NoObject, TransactionName))]
  IN [GuiDocument_setEdit(w4, w4.activeObject.id) EXCEPT !.ret = "None", !.retObj = NoObject]

\* the new object is not added to the active analysis
Activated_noAddObject(w) ==
  LET w1 == [w EXCEPT !.calls = Append(@, Call("openTransaction", NoObject, TransactionName))]
      w2 == makeCfdReportingFunctions(w1)
  IN [GuiDocument_setEdit(w2, w2.activeObject.id) EXCEPT !.ret = "None", !.retObj = NoObject]

\* Activated()
Activated(w) ==
  LET w1 == [w EXCEPT !.calls = Append(@, Call("openTransaction", NoObject, TransactionName))]
      w2 == makeCfdReportingFunctions(w1)
      w3 == Analysis_addObject(w2, getActiveAnalysis, w2.retObj)
  IN [GuiDocument_setEdit(w3, w3.activeObject.id) EXCEPT !.ret = "None", !.retObj = NoObject]

\* ------------------------------------------------------------ actions
StateValues == {"None", "ReportingFunction", "Other"}

HostStep(op) ==
  last' = [op |-> op, obj |-> NoObject, ret |-> "None", retObj |-> NoObject, calls |-> <<>>]

\* an analysis container is created and becomes the active analysis
CreateAnalysis ==
  /\ analyses # AnalysisIds
  /\ LET a == CHOOSE x \in AnalysisIds \ analyses : \A y \in AnalysisIds \ analyses : x <= y
     IN /\ analyses' = analyses \cup {a}
        /\ active' = a
        /\ activeObject' = [kind |-> "analysis", id |-> a]
  /\ HostStep("CreateAnalysis")
  /\ UNCHANGED <<GuiUp, NeedsCaseRewrite, loading, objs, proxy, vproxy, props, visible,
                 group, inEdit, dialogs, nChanges>>

\* the user makes another analysis, or none, the active one
SetActiveAnalysis(a) ==
  /\ a \in analyses \cup {NoAnalysis}
  /\ a # active
  /\ active' = a
  /\ HostStep("SetActiveAnalysis")
  /\ UNCHANGED <<GuiUp, analyses, NeedsCaseRewrite, loading, objs, proxy, vproxy, props,
                 visible, group, activeObject, inEdit, dialogs, nChanges>>

\* a script calls makeCfdReportingFunctions()
Make ==
  /\ objs # ObjIds
  /\ Commit("makeCfdReportingFunctions", NewObject(World), makeCfdReportingFunctions(World))
  /\ UNCHANGED <<GuiUp, analyses, active, loading, nChanges>>

\* a script adds an object that is in no analysis to an analysis
AddToAnalysis(a, o) ==
  /\ a \in analyses
  /\ o \in objs
  /\ getParentAnalysisObject(group, o) = NoAnalysis
  /\ Commit("analysis.addObject", o, Analysis_addObject(World, a, o))
  /\ UNCHANGED <<GuiUp, analyses, active, loading, nChanges>>

\* the command runs; the host offers it only while IsActive() holds
RunActivated ==
  /\ GuiUp
  /\ IsActive
  /\ objs # ObjIds
  /\ Commit("Activated", NewObject(World), Activated(World))
  /\ UNCHANGED <<GuiUp, analyses, active, loading, nChanges>>

\* the user double-clicks an object in the tree
RunDoubleClicked(o) ==
  /\ o \in objs
  /\ vproxy[o].present
  /\ Commit("doubleClicked", o, doubleClicked(World, o))
  /\ UNCHANGED <<GuiUp, analyses, active, loading, nChanges>>

\* the Gui document is asked to edit an object: the host calls setEdit
RunSetEdit(o) ==
  /\ o \in objs
  /\ vproxy[o].present
  /\ o # inEdit
  /\ Commit("setEdit", o, GuiDocument_setEdit(World, o))
  /\ UNCHANGED <<GuiUp, analyses, active, loading, nChanges>>

\* edit mode is left: the host calls unsetEdit
RunUnsetEdit ==
  /\ inEdit # NoObject
  /\ Commit("unsetEdit", inEdit, GuiDocument_resetEdit(World))
  /\ UNCHANGED <<GuiUp, analyses, active, loading, nChanges>>

\* the user hides an object
Hide(o) ==
  /\ o \in objs
  /\ visible[o]
  /\ visible' = [visible EXCEPT ![o] = FALSE]
  /\ HostStep("Hide")
  /\ UNCHANGED <<GuiUp, analyses, active, NeedsCaseRewrite, loading, objs, proxy, vproxy,
                 props, group, activeObject, inEdit, dialogs, nChanges>>

\* the document is recomputed: the host calls execute
RunExecute(o) ==
  /\ o \in objs
  /\ Commit("execute", o, execute(World, o))
  /\ UNCHANGED <<GuiUp, analyses, active, loading, nChanges>>

\* the document is saved or loaded: the host calls the proxies' state methods
RunGetState(o) ==
  /\ o \in objs
  /\ Commit("Proxy.__getstate__", o, Proxy_getstate(World, o))
  /\ UNCHANGED <<GuiUp, analyses, active, loading, nChanges>>

RunSetState(o, state) ==
  /\ o \in objs
  /\ Commit("Proxy.__setstate__", o, Proxy_setstate(World, o, state))
  /\ UNCHANGED <<GuiUp, analyses, active, loading, nChanges>>

RunViewGetState(o) ==
  /\ o \in objs
  /\ vproxy[o].present
  /\ Commit("ViewProxy.__getstate__", o, ViewProvider_getstate(World, o))
  /\ UNCHANGED <<GuiUp, analyses, active, loading, nChanges>>

RunViewSetState(o, state) ==
  /\ o \in objs
  /\ vproxy[o].present
  /\ Commit("ViewProxy.__setstate__", o, ViewProvider_setstate(World, o, state))
  /\ UNCHANGED <<GuiUp, analyses, active, loading, nChanges>>

\* ------------------------------------------------------------ property actions
AltValue(p) == IF p = "ReportingFunctionType" THEN OBJECT_NAMES[3] ELSE "changed"

\* the host fires updateData on the view provider, when there is one, after a
\* property of the object changed
NotifyChanged(w, o) == IF w.vproxy[o].present THEN updateData(w, o) ELSE w

\* the user gives a property another value (property editor or task panel)
SetProperty(o, p, v) ==
  /\ o \in objs
  /\ p \in DOMAIN props[o]
  /\ v # props[o][p]
  /\ nChanges < MaxChanges
  /\ nChanges' = nChanges + 1
  /\ Commit("setProperty", o, NotifyChanged([World EXCEPT !.props[o][p] = v], o))
  /\ UNCHANGED <<GuiUp, analyses, active, loading>>

\* the object lacks a property: it was saved by a version that did not declare
\* it, or a script removed it
RemoveProperty(o, p) ==
  /\ o \in objs
  /\ p \in DOMAIN props[o]
  /\ nChanges < MaxChanges
  /\ nChanges' = nChanges + 1
  /\ Commit("removeProperty", o,
            [World EXCEPT !.props[o] = [q \in DOMAIN props[o] \ {p} |-> props[o][q]]])
  /\ UNCHANGED <<GuiUp, analyses, active, loading>>

\* the document is restored: the host calls onDocumentRestored
RunDocumentRestored(o) ==
  /\ o \in objs
  /\ LET w == onDocumentRestored(World, o)
     IN Commit("onDocumentRestored", o,
               IF w.props[o] # props[o] THEN NotifyChanged(w, o) ELSE w)
  /\ UNCHANGED <<GuiUp, analyses, active, loading, nChanges>>

\* initProperties is called again on an object
RunInitProperties(o) ==
  /\ o \in objs
  /\ Commit("initProperties", o, [World EXCEPT !.props[o] = initProperties(props[o])])
  /\ UNCHANGED <<GuiUp, analyses, active, loading, nChanges>>

\* an analysis starts or ends loading
SetLoading(a) ==
  /\ a \in analyses
  /\ loading' = [loading EXCEPT ![a] = ~@]
  /\ HostStep("SetLoading")
  /\ UNCHANGED <<GuiUp, analyses, active, NeedsCaseRewrite, objs, proxy, vproxy, props,
                 visible, group, activeObject, inEdit, dialogs, nChanges>>

Next ==
  \/ CreateAnalysis
  \/ \E a \in AnalysisIds \cup {NoAnalysis} : SetActiveAnalysis(a)
  \/ Make
  \/ \E a \in AnalysisIds, o \in ObjIds : AddToAnalysis(a, o)
  \/ RunActivated
  \/ \E o \in ObjIds : RunDoubleClicked(o)
  \/ \E o \in ObjIds : RunSetEdit(o)
  \/ RunUnsetEdit
  \/ \E o \in ObjIds : Hide(o)
  \/ \E o \in ObjIds : RunExecute(o)
  \/ \E o \in ObjIds : RunGetState(o)
  \/ \E o \in ObjIds, state \in StateValues : RunSetState(o, state)
  \/ \E o \in ObjIds : RunViewGetState(o)
  \/ \E o \in ObjIds, state \in StateValues : RunViewSetState(o, state)

Spec == Init /\ [][Next]_vars

\* ------------------------------------------------------------ the property scenario
\* One reporting function, made by a script and then recomputed, in or outside
\* the one analysis of the document: states Spec reaches (PropsStart).
PropsStart ==
  /\ analyses = {1}
  /\ active = 1
  /\ NeedsCaseRewrite = [a \in AnalysisIds |-> FALSE]
  /\ loading = [a \in AnalysisIds |-> FALSE]
  /\ objs = {1}
  /\ proxy = [o \in ObjIds |-> IF o = 1 THEN [Type |-> "ReportingFunction", Object |-> 1]
                                        ELSE NoProxy]
  /\ vproxy = [o \in ObjIds |-> IF o = 1 /\ GuiUp
                                 THEN [present |-> TRUE, taskd |-> "None", Object |-> 1]
                                 ELSE NoViewProxy]
  /\ props = [o \in ObjIds |-> IF o = 1 THEN initProperties(NoProps) ELSE NoProps]
  /\ visible = [o \in ObjIds |-> o = 1]
  /\ group \in {[a \in AnalysisIds |-> {}], [a \in AnalysisIds |-> IF a = 1 THEN {1} ELSE {}]}
  /\ activeObject = [kind |-> "object", id |-> 1]
  /\ inEdit = NoObject
  /\ dialogs = {}
  /\ nChanges = 0
  /\ last = [op |-> "execute", obj |-> 1, ret |-> "None", retObj |-> NoObject,
             calls |-> <<>>]

InitProps == GuiUp \in BOOLEAN /\ PropsStart

NextProps ==
  \/ \E o \in ObjIds, p \in PropNames : SetProperty(o, p, Defaults[p])
  \/ \E o \in ObjIds, p \in PropNames : SetProperty(o, p, AltValue(p))
  \/ \E o \in ObjIds, p \in PropNames : RemoveProperty(o, p)
  \/ \E o \in ObjIds : RunDocumentRestored(o)
  \/ \E o \in ObjIds : RunInitProperties(o)
  \/ \E a \in AnalysisIds : SetLoading(a)
  \/ \E o \in ObjIds : RunExecute(o)

SpecProps == InitProps /\ [][NextProps]_vars

\* ------------------------------------------------------------ claims
InCalls(c, calls) == \E i \in 1..Len(calls) : calls[i] = c
CallsOf(f, calls) == {i \in 1..Len(calls) : calls[i].f = f}
NonLast == <<GuiUp, analyses, active, NeedsCaseRewrite, loading, objs, proxy, vproxy,
             props, visible, group, activeObject, inEdit, dialogs, nChanges>>
DocumentSize == Cardinality(objs) + Cardinality(analyses)

\* C1: when Activated runs while IsActive holds, the document has exactly one
\* more object afterwards; the new object carries a proxy of Type
\* "ReportingFunction", is a member of the active analysis and is the object
\* edit mode is requested on; the transaction "Create CfdReportingFunctions
\* object" is opened before the object is created.
C1_ActivatedCreatesMemberInEdit ==
  [][(IsActive /\ last'.op = "Activated") =>
       \E o \in objs' \ objs :
         /\ objs' = objs \cup {o}
         /\ DocumentSize' = DocumentSize + 1
         /\ proxy'[o].Type = "ReportingFunction"
         /\ o \in group'[active]
         /\ \A i \in CallsOf("setEdit", last'.calls) : last'.calls[i].obj = o
         /\ CallsOf("setEdit", last'.calls) # {}
         /\ \E i, j \in 1..Len(last'.calls) :
              /\ i < j
              /\ last'.calls[i] = Call("openTransaction", NoObject, TransactionName)
              /\ last'.calls[j] = Call("addObject", o, "")]_vars

C1_Witness ==
  /\ last.op = "Activated"
  /\ last.obj \in group[active]
  /\ proxy[last.obj].Type = "ReportingFunction"
  /\ InCalls(Call("setEdit", last.obj, ""), last.calls)
  /\ last.calls[1].f = "openTransaction"

\* C2: execute is a no-op: a call of execute(obj) leaves the properties of
\* every object, the proxies, the analyses (NeedsCaseRewrite included) and the
\* edit and dialog state as they were.
C2_ExecuteChangesNothing ==
  [][last'.op = "execute" => UNCHANGED NonLast]_vars

C2_Witness ==
  /\ last.op = "execute"
  /\ getParentAnalysisObject(group, last.obj) # NoAnalysis
  /\ ~NeedsCaseRewrite[getParentAnalysisObject(group, last.obj)]
  /\ inEdit = last.obj

\* C3: for the object proxy and for the view-provider proxy, __getstate__
\* returns None, and __setstate__(state) returns None and leaves every proxy
\* field and every object property as it was, whatever state is passed.
C3_StateMethodsReturnNoneChangeNothing ==
  [][last'.op \in {"Proxy.__getstate__", "Proxy.__setstate__",
                   "ViewProxy.__getstate__", "ViewProxy.__setstate__"}
       => (last'.ret = "None" /\ UNCHANGED NonLast)]_vars

C3_Witness ==
  /\ last.op = "Proxy.__setstate__"
  /\ last.ret = "None"
  /\ proxy[last.obj] = [Type |-> "ReportingFunction", Object |-> last.obj]
  /\ vproxy[last.obj].present

\* C4: makeCfdReportingFunctions returns the object it added to the document;
\* the object's Proxy is a _CfdReportingFunctions whose Object is that object;
\* the object's ViewObject has a view-provider proxy, with taskd = None,
\* exactly when the GUI is up.
C4_MakeReturnsProxiedObject ==
  [][objs' # objs =>
       \E o \in objs' \ objs :
         /\ objs' = objs \cup {o}
         /\ proxy'[o] = [Type |-> "ReportingFunction", Object |-> o]
         /\ vproxy'[o].present <=> GuiUp
         /\ vproxy'[o].present => vproxy'[o].taskd = "None"
         /\ last'.op = "makeCfdReportingFunctions"
              => (last'.ret = "obj" /\ last'.retObj = o)]_vars

C4_Witness ==
  /\ last.op = "makeCfdReportingFunctions"
  /\ last.retObj \in objs
  /\ proxy[last.retObj].Object = last.retObj
  /\ ~GuiUp
  /\ ~vproxy[last.retObj].present

\* C5: setEdit on an object without a parent analysis reports "Reporting
\* function must have a parent analysis object", returns False, opens no task
\* dialog and leaves the object's visibility alone; with a parent analysis it
\* shows the object, opens a task dialog bound to it and returns True.
C5_SetEditNeedsParentAnalysis ==
  [][\A o \in ObjIds :
       InCalls(Call("setEdit", o, ""), last'.calls) =>
         IF getParentAnalysisObject(group', o) = NoAnalysis
         THEN /\ InCalls(Call("cfdErrorBox", NoObject, ParentAnalysisMsg), last'.calls)
              /\ CallsOf("showDialog", last'.calls) = {}
              /\ CallsOf("show", last'.calls) = {}
              /\ dialogs' \subseteq dialogs
              /\ o \notin dialogs'
              /\ inEdit' # o
              /\ visible'[o] = visible[o]
              /\ last'.op = "setEdit" => last'.ret = "False"
         ELSE /\ CallsOf("cfdErrorBox", last'.calls) = {}
              /\ InCalls(Call("show", o, ""), last'.calls)
              /\ InCalls(Call("showDialog", o, ""), last'.calls)
              /\ visible'[o]
              /\ o \in dialogs'
              /\ last'.op = "setEdit" => last'.ret = "True"]_vars

C5_Witness ==
  /\ last.op = "setEdit"
  /\ last.ret = "False"
  /\ getParentAnalysisObject(group, last.obj) = NoAnalysis
  /\ InCalls(Call("cfdErrorBox", NoObject, ParentAnalysisMsg), last.calls)
  /\ ~visible[last.obj]
  /\ dialogs = {}

\* C6: at most one object is in edit at a time, and the open task dialog is
\* the one of that object; doubleClicked asks for edit of its object only when
\* no object of the document is in edit, and otherwise reports "Task dialog
\* already active", brings the task view to the front and leaves the object in
\* edit as it is; doubleClicked returns True either way.
C6_OneObjectInEdit ==
  [][/\ Cardinality(dialogs') <= 1
     /\ dialogs' = (IF inEdit' = NoObject THEN {} ELSE {inEdit'})
     /\ last'.op = "doubleClicked" =>
          /\ last'.ret = "True"
          /\ IF inEdit = NoObject
             THEN InCalls(Call("setEdit", last'.obj, ""), last'.calls)
             ELSE /\ last'.calls = << Call("PrintError", NoObject, DialogActiveMsg),
                                      Call("showTaskView", NoObject, "") >>
                  /\ inEdit' = inEdit
                  /\ dialogs' = dialogs]_vars

C6_Witness ==
  /\ last.op = "doubleClicked"
  /\ inEdit # NoObject
  /\ inEdit # last.obj
  /\ InCalls(Call("PrintError", NoObject, DialogActiveMsg), last.calls)
  /\ dialogs = {inEdit}

\* the 17 properties the claim names
ClaimedProperties ==
  {"ReportingFunctionType", "Patch", "ReferenceDensity", "ReferencePressure",
   "CentreOfRotation", "WriteFields", "Lift", "Drag", "Pitch", "MagnitudeUInf",
   "LengthRef", "AreaRef", "NBins", "Direction", "Cumulative", "SampleFieldName",
   "ProbePosition"}

\* C7: initProperties is idempotent and onDocumentRestored re-establishes the
\* schema: after either, the object has exactly the 17 declared properties,
\* those it had keep their values, those it lacked take their declared
\* defaults, and running initProperties again changes nothing.
C7_InitPropertiesRestoresSchema ==
  [][last'.op \in {"onDocumentRestored", "initProperties"} =>
       LET o == last'.obj
       IN /\ Cardinality(ClaimedProperties) = 17
          /\ DOMAIN props'[o] = ClaimedProperties
          /\ \A p \in DOMAIN props[o] : props'[o][p] = props[o][p]
          /\ \A p \in ClaimedProperties \ DOMAIN props[o] : props'[o][p] = Defaults[p]
          /\ initProperties(props'[o]) = props'[o]
          /\ \A q \in ObjIds \ {o} : props'[q] = props[q]
          /\ (last.op \in {"onDocumentRestored", "initProperties"} /\ last.obj = o)
               => props'[o] = props[o]]_vars

C7_Witness ==
  /\ last.op = "onDocumentRestored"
  /\ nChanges = 2
  /\ DOMAIN props[last.obj] = ClaimedProperties
  /\ Cardinality({p \in ClaimedProperties : props[last.obj][p] # Defaults[p]}) = 1

\* C8: IsActive holds exactly when there is an active analysis, so the edit
\* request Activated makes on the object it created finds a parent analysis:
\* setEdit opens the dialog and never takes the "must have a parent analysis
\* object" branch.
C8_ActivatedEditFindsParent ==
  [][/\ IsActive' <=> active' \in analyses'
     /\ last'.op = "Activated" =>
          \E o \in objs' \ objs :
            /\ getParentAnalysisObject(group', o) = active
            /\ active \in analyses
            /\ InCalls(Call("showDialog", o, ""), last'.calls)
            /\ CallsOf("cfdErrorBox", last'.calls) = {}
            /\ inEdit' = o
            /\ dialogs' = {o}]_vars

C8_Witness ==
  /\ last.op = "Activated"
  /\ inEdit = last.obj
  /\ dialogs = {last.obj}
  /\ getParentAnalysisObject(group, last.obj) = active
  /\ CallsOf("cfdErrorBox", last.calls) = {}
  /\ Cardinality(objs) = 2
====
